---- MODULE Spec2Model ----
(***************************************************************************)
(* The two agent graphs of the repository: the data-enrichment graph       *)
(* (src/src/enrichment_agent/graph.py) and the ReAct graph                 *)
(* (src/react_agent/graph.py), together with their configuration loaders.  *)
(*                                                                         *)
(* A graph run is a sequence of supersteps of the graph framework: a step  *)
(* executes the scheduled node, merges the node's update into the state    *)
(* through the channels' reducers and evaluates the node's outgoing edge.  *)
(* The chat model, the checker model and the tools are the environment:    *)
(* their answers are drawn from bounded sets.  Every message the           *)
(* environment produces carries a fresh id, so add_messages appends.       *)
(*                                                                         *)
(* The supersteps of an invocation are numbered from 0; is_last_step holds *)
(* at step recursion_limit - 1, and a node that would need step            *)
(* recursion_limit makes the framework raise GraphRecursionError           *)
(* (src/react_agent/utils/state.py, State.is_last_step).  The update       *)
(* "loop_step": 1 of call_agent_model is added to the channel ("Add 1 to   *)
(* the step count", graph.py), which starts at 0.                          *)
(***************************************************************************)
EXTENDS Integers, Sequences, FiniteSets, TLC

VARIABLES
    state,   \* the State of the running graph (its channels)
    node,    \* the node scheduled next, "__end__", or "GraphRecursionError"
    step,    \* the index of the next superstep (the first one is step 0)
    config,  \* the RunnableConfig of the invocation
    calls,   \* history: how often each node has run in this invocation
    configuration,  \* what loading the configuration from config returned
    pair,    \* two states handed to one routing function
    routed,  \* the next nodes the routing function returned for the pair
    response \* history: response.tool_calls of the last call_agent_model

vars ==
    <<state, node, step, config, calls, configuration, pair, routed, response>>

\* the variables a step of a graph leaves alone
idle == <<configuration, pair, routed, response>>

----------------------------------------------------------------------------
(* Bounds of the model *)

\* recursion_limit of an invocation ranges over 1..MaxRecursionLimit
MaxRecursionLimit == 4
\* a supplied max_loops ranges over 1..MaxLoopsChoice
MaxLoopsChoice == 2
\* a supplied max_info_tool_calls ranges over 1..MaxInfoCallsChoice
MaxInfoCallsChoice == 1
\* a model response carries at most MaxToolCalls tool calls
MaxToolCalls == 2
\* a supplied integer setting ranges over 0..MaxConfigValue when loading
MaxConfigValue == 1
\* the states handed to a routing function are those of the first
\* MaxRouteSteps supersteps of a run
MaxRouteSteps == 2

----------------------------------------------------------------------------
(* Values *)

None == "None"
\* the empty dict {} (falsy in Python) and non-empty dicts
EmptyDict == "{}"
InfoArgs == {EmptyDict, "a"}
InputInfos == {None, "b"}
Truthy(v) == v \notin {None, EmptyDict}

EmptyItems == [k \in {} |-> 0]

\* the nodes' names of the enrichment graph and the two ways a run stops
END == "__end__"
GraphRecursionError == "GraphRecursionError"

----------------------------------------------------------------------------
(* Messages (langchain_core.messages), by shape *)

AIMessage(tool_calls) ==
    [type |-> "ai", tool_calls |-> tool_calls, name |-> "", status |-> ""]
HumanMessage ==
    [type |-> "human", tool_calls |-> <<>>, name |-> "", status |-> ""]
ToolMessage(name, status) ==
    [type |-> "tool", tool_calls |-> <<>>, name |-> name, status |-> status]

isinstance(m, type) == m.type = type

\* the tool calls a model bound to [scrape_website, search, Info] can emit
ResearchTools == {"search", "scrape_website"}
ToolCalls ==
    [name : ResearchTools, args : {"q"}] \cup [name : {"Info"}, args : InfoArgs]

SeqsUpTo(S, n) == UNION {[1..k -> S] : k \in 0..n}

\* response.tool_calls of one model invocation
Responses == SeqsUpTo(ToolCalls, MaxToolCalls)

----------------------------------------------------------------------------
(* Configuration of the enrichment agent *)

DefaultMaxSearchResults == 10
DefaultMaxInfoToolCalls == 3
DefaultMaxLoops == 6

\* the dataclass fields and their defaults
_fields ==
    {"model", "prompt", "max_search_results", "max_info_tool_calls", "max_loops"}

FieldDefault(k) ==
    CASE k = "model" -> "anthropic/claude-3-5-sonnet-20240620"
      [] k = "prompt" -> "MAIN_PROMPT"
      [] k = "max_search_results" -> DefaultMaxSearchResults
      [] k = "max_info_tool_calls" -> DefaultMaxInfoToolCalls
      [] k = "max_loops" -> DefaultMaxLoops

\* config.get("configurable") or {}
get_configurable(cfg) ==
    IF cfg.kind = "dict" THEN cfg.configurable ELSE EmptyItems

\* cls(**kwargs): a keyword that is no field raises TypeError
Configuration(kwargs) ==
    IF DOMAIN kwargs \subseteq _fields
    THEN [ok |-> TRUE,
          value |-> [k \in _fields |->
                        IF k \in DOMAIN kwargs THEN kwargs[k] ELSE FieldDefault(k)]]
    ELSE [ok |-> FALSE, value |-> [k \in _fields |-> FieldDefault(k)]]

\* mutant: every key of configurable is passed on to the constructor
from_runnable_config_unfiltered(cfg) ==
    LET configurable == get_configurable(cfg)
    IN  Configuration(configurable)

from_runnable_config(cfg) ==
    LET configurable == get_configurable(cfg)
    IN  Configuration([k \in DOMAIN configurable \cap _fields |-> configurable[k]])

----------------------------------------------------------------------------
(* Configuration of the ReAct agent *)

ReactKeys == {"system_prompt", "model_name", "scraper_tool_model_name"}

ReactDefault(k) ==
    CASE k = "system_prompt" -> "You are a helpful AI assistant."
      [] k = "model_name" -> "claude-3-5-sonnet-20240620"
      [] k = "scraper_tool_model_name" -> "accounts/fireworks/models/firefunction-v2"

\* configurable.get(key, default)
dict_get(d, k, default) == IF k \in DOMAIN d THEN d[k] ELSE default

ensure_configurable(cfg) ==
    LET configurable == get_configurable(cfg)
    IN  [ok |-> TRUE,
         value |-> [k \in ReactKeys |-> dict_get(configurable, k, ReactDefault(k))]]

\* nothing has been loaded from config yet
NotLoaded == [by |-> "", ok |-> FALSE, value |-> EmptyItems]

\* no pair of states is being routed
NoPair == [router |-> "", s1 |-> EmptyItems, s2 |-> EmptyItems]
NotRouted == <<>>

----------------------------------------------------------------------------
(* The State of the enrichment graph and its channels *)

\* add_messages on messages with fresh ids: append
add_messages(left, right) == left \o right

\* the reducer of the loop_step channel: the update is added to the count
loop_step_reducer(left, right) == left + right

\* merge a node's update into the state: messages through add_messages,
\* loop_step by addition, info by overwriting
apply_update(s, update) ==
    [messages  |-> IF "messages" \in DOMAIN update
                   THEN add_messages(s.messages, update.messages)
                   ELSE s.messages,
     info      |-> IF "info" \in DOMAIN update THEN update.info ELSE s.info,
     loop_step |-> IF "loop_step" \in DOMAIN update
                   THEN loop_step_reducer(s.loop_step, update.loop_step)
                   ELSE s.loop_step]

Last(seq) == seq[Len(seq)]

----------------------------------------------------------------------------
(* Nodes of the enrichment graph *)

\* the index of the first Info call among tool_calls, 0 when there is none
FirstInfo(tool_calls) ==
    LET idx == {i \in 1..Len(tool_calls) : tool_calls[i].name = "Info"}
    IN  IF idx = {} THEN 0 ELSE CHOOSE i \in idx : \A j \in idx : i <= j

\* mutant: info is taken from the last Info call of the response, the
\* message keeps the first
call_agent_model_last_info(s, response_tool_calls) ==
    LET i == FirstInfo(response_tool_calls)
        idx == {j \in 1..Len(response_tool_calls) :
                   response_tool_calls[j].name = "Info"}
        l == IF idx = {} THEN 0 ELSE CHOOSE j \in idx : \A k \in idx : k <= j
        info == IF l = 0 THEN None ELSE response_tool_calls[l].args
        tool_calls == IF info # None THEN <<response_tool_calls[i]>>
                      ELSE response_tool_calls
        response_messages ==
            IF tool_calls = <<>>
            THEN <<AIMessage(tool_calls), HumanMessage>>
            ELSE <<AIMessage(tool_calls)>>
    IN  [messages |-> response_messages, info |-> info, loop_step |-> 1]

\* mutant: the response keeps all its tool calls when it calls Info
call_agent_model_untrimmed(s, response_tool_calls) ==
    LET i == FirstInfo(response_tool_calls)
        info == IF i = 0 THEN None ELSE response_tool_calls[i].args
        tool_calls == response_tool_calls
        response_messages ==
            IF tool_calls = <<>>
            THEN <<AIMessage(tool_calls), HumanMessage>>
            ELSE <<AIMessage(tool_calls)>>
    IN  [messages |-> response_messages, info |-> info, loop_step |-> 1]

\* mutant: info is left out of the update when the response has no Info call
call_agent_model_keeps_info(s, response_tool_calls) ==
    LET i == FirstInfo(response_tool_calls)
        info == IF i = 0 THEN None ELSE response_tool_calls[i].args
        tool_calls == IF info # None THEN <<response_tool_calls[i]>>
                      ELSE response_tool_calls
        response_messages ==
            IF tool_calls = <<>>
            THEN <<AIMessage(tool_calls), HumanMessage>>
            ELSE <<AIMessage(tool_calls)>>
    IN  IF info = None
        THEN [messages |-> response_messages, loop_step |-> 1]
        ELSE [messages |-> response_messages, info |-> info, loop_step |-> 1]

\* mutant: the update carries the new count instead of the increment
call_agent_model_new_count(s, response_tool_calls) ==
    LET i == FirstInfo(response_tool_calls)
        info == IF i = 0 THEN None ELSE response_tool_calls[i].args
        tool_calls == IF info # None THEN <<response_tool_calls[i]>>
                      ELSE response_tool_calls
        response_messages ==
            IF tool_calls = <<>>
            THEN <<AIMessage(tool_calls), HumanMessage>>
            ELSE <<AIMessage(tool_calls)>>
    IN  [messages |-> response_messages, info |-> info,
         loop_step |-> s.loop_step + 1]

\* the update call_agent_model returns for the model's response
call_agent_model(s, response_tool_calls) ==
    LET i == FirstInfo(response_tool_calls)
        info == IF i = 0 THEN None ELSE response_tool_calls[i].args
        tool_calls == IF info # None THEN <<response_tool_calls[i]>>
                      ELSE response_tool_calls
        response_messages ==
            IF tool_calls = <<>>
            THEN <<AIMessage(tool_calls), HumanMessage>>
            ELSE <<AIMessage(tool_calls)>>
    IN  [messages |-> response_messages, info |-> info, loop_step |-> 1]

\* the update reflect returns for the checker's verdict
reflect(s, is_satisfactory) ==
    LET presumed_info == s.info
    IN  IF is_satisfactory
        THEN [info |-> presumed_info]
        ELSE [messages |-> <<ToolMessage("Info", "error")>>]

\* ToolNode([search, scrape_website]): one ToolMessage per tool call of the
\* last AIMessage, of status "success" or (the tools raised) "error"
tools(s, status) ==
    LET tool_calls == Last(s.messages).tool_calls
    IN  [messages |-> [i \in 1..Len(tool_calls) |->
                          ToolMessage(tool_calls[i].name, status)]]

----------------------------------------------------------------------------
(* Edges of the enrichment graph *)

\* mutant: the tool's name is compared with "info"
route_after_agent_lowercase(s) ==
    LET last_message == Last(s.messages)
    IN  IF ~isinstance(last_message, "ai") THEN "call_agent_model"
        ELSE IF last_message.tool_calls # <<>>
                /\ last_message.tool_calls[1].name = "info" THEN "reflect"
        ELSE "tools"

\* mutant: the first message is read instead of the last
route_after_agent_first(s) ==
    LET last_message == s.messages[1]
    IN  IF ~isinstance(last_message, "ai") THEN "call_agent_model"
        ELSE IF last_message.tool_calls # <<>>
                /\ last_message.tool_calls[1].name = "Info" THEN "reflect"
        ELSE "tools"

\* mutant: a last message that is no AIMessage ends the run
route_after_agent_ends(s) ==
    LET last_message == Last(s.messages)
    IN  IF ~isinstance(last_message, "ai") THEN END
        ELSE IF last_message.tool_calls # <<>>
                /\ last_message.tool_calls[1].name = "Info" THEN "reflect"
        ELSE "tools"

route_after_agent(s) ==
    LET last_message == Last(s.messages)
    IN  IF ~isinstance(last_message, "ai") THEN "call_agent_model"
        ELSE IF last_message.tool_calls # <<>>
                /\ last_message.tool_calls[1].name = "Info" THEN "reflect"
        ELSE "tools"

\* the value of max_loops the invocation's configuration carries
max_loops(cfg) == from_runnable_config(cfg).value.max_loops
max_info_tool_calls(cfg) == from_runnable_config(cfg).value.max_info_tool_calls

\* isinstance(x, ToolMessage) for x a list of messages: a list is no message
list_isinstance(msgs, type) == FALSE

\* mutant: the loop bound compared with <= instead of <
route_after_checker_le(s, cfg) ==
    IF s.loop_step <= max_loops(cfg)
    THEN IF ~Truthy(s.info) THEN "call_agent_model" ELSE END
    ELSE END

\* mutant: info is tested against None instead of for emptiness
route_after_checker_is_none(s, cfg) ==
    IF s.loop_step < max_loops(cfg)
    THEN IF s.info = None THEN "call_agent_model" ELSE END
    ELSE END

\* last_message is bound to state.messages, the whole list, not to its last
\* element
route_after_checker(s, cfg) ==
    LET last_message == s.messages
    IN  IF s.loop_step < max_loops(cfg)
        THEN IF ~Truthy(s.info) THEN "call_agent_model"
             ELSE IF list_isinstance(last_message, "tool")
                     /\ Last(last_message).status = "error"
                  THEN "call_agent_model"
             ELSE END
        ELSE END

\* the state once the node's update is merged into it
after_call_agent_model(s, r) ==
    apply_update(s, call_agent_model(s, r))
after_reflect(s, is_satisfactory) ==
    apply_update(s, reflect(s, is_satisfactory))
after_tools(s, status) ==
    apply_update(s, tools(s, status))

----------------------------------------------------------------------------
(* A run of the enrichment graph *)

Nodes == {"call_agent_model", "reflect", "tools"}

NoCalls == [n \in Nodes |-> 0]

EnrichmentConfigs ==
    {[recursion_limit |-> r, kind |-> "dict",
      configurable |-> [k \in DOMAIN ml \cup DOMAIN mi |->
                           IF k \in DOMAIN ml THEN ml[k] ELSE mi[k]]] :
        r \in 1..MaxRecursionLimit,
        ml \in UNION {[K -> 1..MaxLoopsChoice] : K \in SUBSET {"max_loops"}},
        mi \in UNION {[K -> 1..MaxInfoCallsChoice] :
                         K \in SUBSET {"max_info_tool_calls"}}}

\* graph.ainvoke(input, config): the input's info, no messages, loop_step 0
InputStates ==
    {[messages |-> <<>>, info |-> i, loop_step |-> 0] : i \in InputInfos}

Init ==
    /\ config \in EnrichmentConfigs
    /\ state \in InputStates
    /\ node = "call_agent_model"
    /\ step = 0
    /\ calls = NoCalls
    /\ configuration = NotLoaded
    /\ pair = NoPair
    /\ routed = NotRouted
    /\ response = <<>>

\* a superstep may run while step < recursion_limit
MayStep == step < config.recursion_limit

Ran(n) == calls' = [calls EXCEPT ![n] = @ + 1]

CallAgentModelStep ==
    /\ node = "call_agent_model"
    /\ MayStep
    /\ response' \in Responses
    /\ state' = after_call_agent_model(state, response')
    /\ node' = route_after_agent(state')
    /\ step' = step + 1
    /\ Ran("call_agent_model")
    /\ UNCHANGED <<config, configuration, pair, routed>>

ToolsStep ==
    /\ node = "tools"
    /\ MayStep
    /\ \E status \in {"success", "error"} :
          state' = after_tools(state, status)
    /\ node' = "call_agent_model"
    /\ step' = step + 1
    /\ Ran("tools")
    /\ UNCHANGED <<config, idle>>

ReflectStep ==
    /\ node = "reflect"
    /\ MayStep
    /\ \E is_satisfactory \in BOOLEAN :
          state' = after_reflect(state, is_satisfactory)
    /\ node' = route_after_checker(state', config)
    /\ step' = step + 1
    /\ Ran("reflect")
    /\ UNCHANGED <<config, idle>>

\* a node is scheduled but the recursion limit leaves no step for it
OutOfSteps ==
    /\ node \in Nodes
    /\ ~MayStep
    /\ node' = GraphRecursionError
    /\ UNCHANGED <<state, step, config, calls, idle>>

Next == CallAgentModelStep \/ ToolsStep \/ ReflectStep \/ OutOfSteps

Spec == Init /\ [][Next]_vars

\* the framework runs the scheduled node at every superstep until the run
\* ends or raises
FairSpec == Init /\ [][Next]_vars /\ WF_vars(Next)

----------------------------------------------------------------------------
(* Properties of the enrichment graph *)

\* the checker's last verdict was "unsatisfactory": reflect appended a
\* ToolMessage of status "error"
Unsatisfactory(s) ==
    /\ s.messages # <<>>
    /\ isinstance(Last(s.messages), "tool")
    /\ Last(s.messages).name = "Info"
    /\ Last(s.messages).status = "error"

\* the indices of the AIMessages of a list of messages
AIIndices(msgs) == {i \in 1..Len(msgs) : isinstance(msgs[i], "ai")}

\* C1: __end__ is entered only from reflect: no step of call_agent_model or
\* of tools ends the run.
C1_EndOnlyAfterReflect ==
    [][(node # END /\ node' = END) => node = "reflect"]_vars

C1_Witness ==
    node = END /\ calls["tools"] >= 1 /\ calls["reflect"] >= 1

\* C2: a run that is at __end__ with loop_step < max_loops has a satisfactory
\* last verdict (after an unsatisfactory verdict below the loop bound,
\* route_after_checker continues with call_agent_model).
C2_UnsatisfactoryContinues ==
    (node = END /\ state.loop_step < max_loops(config)) => ~Unsatisfactory(state)

\* C3: a run that reaches __end__ has executed call_agent_model at most
\* max_loops times.
C3_AtMostMaxLoopsCalls ==
    node = END => calls["call_agent_model"] <= max_loops(config)

\* C4: every run eventually reaches __end__, at least when the recursion limit
\* leaves room for max_loops loops of two steps each.
C4_EventuallyEnds ==
    (config.recursion_limit > 2 * max_loops(config)) => <>(node = END)

\* C5: reflect, which runs once per response with an Info call, never runs
\* more than max_info_tool_calls times.
C5_AtMostMaxInfoToolCalls ==
    calls["reflect"] <= max_info_tool_calls(config)

\* C6: at __end__ info is not None and equals the args of the Info call of
\* the last AIMessage.
C6_InfoAtEnd ==
    node = END =>
        /\ state.info # None
        /\ \E i \in AIIndices(state.messages) :
              /\ \A j \in AIIndices(state.messages) : j <= i
              /\ state.messages[i].tool_calls # <<>>
              /\ state.messages[i].tool_calls[1].name = "Info"
              /\ state.messages[i].tool_calls[1].args = state.info

C6_Witness ==
    node = END /\ state.info = "a" /\ calls["call_agent_model"] >= 2

\* C10: a step of reflect that leaves loop_step >= max_loops ends the run,
\* whatever info holds and whatever the verdict was.
C10_EndAtMaxLoops ==
    [][(node = "reflect" /\ step' = step + 1
        /\ state'.loop_step >= max_loops(config)) => node' = END]_vars

C10_Witness ==
    /\ node = END
    /\ state.loop_step >= max_loops(config)
    /\ Unsatisfactory(state)
    /\ ~Truthy(state.info)

CalledInfo(m) ==
    \E i \in 1..Len(m.tool_calls) : m.tool_calls[i].name = "Info"
CalledOtherTool(m) ==
    \E i \in 1..Len(m.tool_calls) : m.tool_calls[i].name # "Info"

LastAIMessage(s) ==
    s.messages[CHOOSE i \in AIIndices(s.messages) :
                   \A j \in AIIndices(s.messages) : j <= i]

\* C14: when the last response of the model carries an Info call at any
\* position, the AIMessage appended for it carries exactly one tool call, the
\* first Info call of the response, info is that call's args, and no research
\* call of the response is kept.
C14_InfoCallAlone ==
    (calls["call_agent_model"] >= 1 /\ FirstInfo(response) # 0) =>
        LET m == LastAIMessage(state)
            first_info == response[FirstInfo(response)]
        IN  /\ Len(m.tool_calls) = 1
            /\ m.tool_calls[1] = first_info
            /\ state.info = first_info.args
            /\ ~CalledOtherTool(m)

\* the response called a research tool first and Info after it
C14_Witness ==
    /\ Len(response) = 2
    /\ response[1].name \in ResearchTools
    /\ response[2] = [name |-> "Info", args |-> "a"]
    /\ state.info = "a"
    /\ node = "reflect"

\* C15: when the last response of the model carries no Info call, info is
\* None, whatever the input or an earlier step had set it to.
C15_NoInfoCallClearsInfo ==
    (calls["call_agent_model"] >= 1 /\ FirstInfo(response) = 0) =>
        state.info = None

\* an earlier response had submitted an (empty) info and reflect has run on
\* it; the last response researches
C15_Witness ==
    /\ calls["reflect"] >= 1
    /\ \E i \in AIIndices(state.messages) :
          /\ CalledInfo(state.messages[i])
          /\ state.messages[i].tool_calls[1].args = EmptyDict
    /\ response # <<>>
    /\ FirstInfo(response) = 0
    /\ state.info = None

\* C11: a step of reflect that leaves loop_step < max_loops and info None or
\* empty continues with call_agent_model, whatever the verdict was.
C11_NoInfoContinues ==
    [][(node = "reflect" /\ step' = step + 1
        /\ state'.loop_step < max_loops(config)
        /\ ~Truthy(state'.info)) => node' = "call_agent_model"]_vars

\* reflect has run on empty info with a satisfactory verdict (it appended no
\* ToolMessage) and the run continues
C11_Witness ==
    /\ node = "call_agent_model"
    /\ calls["reflect"] >= 1
    /\ state.loop_step < max_loops(config)
    /\ state.info = EmptyDict
    /\ isinstance(Last(state.messages), "ai")
    /\ Last(state.messages).tool_calls = <<[name |-> "Info", args |-> EmptyDict]>>

----------------------------------------------------------------------------
(* The ReAct graph *)

\* TOOLS of the ReAct agent
TOOLS == {"scrape_webpage", "search_duckduckgo", "search_wikipedia"}

ReactResponses == SeqsUpTo([name : TOOLS, args : {"q"}], MaxToolCalls)

\* the update call_model returns for the model's response
call_model(s, last_step, response_tool_calls) ==
    IF last_step /\ response_tool_calls # <<>>
    THEN [messages |-> <<AIMessage(<<>>)>>]
    ELSE [messages |-> <<AIMessage(response_tool_calls)>>]

\* the managed value IsLastStep: the step is recursion_limit - 1
IsLastStep(st, cfg) == st = cfg.recursion_limit - 1
is_last_step == IsLastStep(step, config)

after_call_model(s, last_step, r) ==
    [messages |->
        add_messages(s.messages, call_model(s, last_step, r).messages)]
after_react_tools(s, status) ==
    [messages |-> add_messages(s.messages, tools(s, status).messages)]

route_model_output(s) ==
    LET last_message == Last(s.messages)
    IN  IF last_message.tool_calls = <<>> THEN END ELSE "tools"

ReactNodes == {"call_model", "tools"}

ReactConfigs ==
    {[recursion_limit |-> r, kind |-> "missing", configurable |-> EmptyItems] :
        r \in 1..MaxRecursionLimit}

\* graph.ainvoke({"messages": [user message]}, config)
ReactInit ==
    /\ config \in ReactConfigs
    /\ state = [messages |-> <<HumanMessage>>]
    /\ node = "call_model"
    /\ step = 0
    /\ calls = [n \in ReactNodes |-> 0]
    /\ configuration = NotLoaded
    /\ pair = NoPair
    /\ routed = NotRouted
    /\ response = <<>>

CallModelStep ==
    /\ node = "call_model"
    /\ MayStep
    /\ \E r \in ReactResponses :
          state' = after_call_model(state, is_last_step, r)
    /\ node' = route_model_output(state')
    /\ step' = step + 1
    /\ Ran("call_model")
    /\ UNCHANGED <<config, idle>>

ReactToolsStep ==
    /\ node = "tools"
    /\ MayStep
    /\ \E status \in {"success", "error"} :
          state' = after_react_tools(state, status)
    /\ node' = "call_model"
    /\ step' = step + 1
    /\ Ran("tools")
    /\ UNCHANGED <<config, idle>>

ReactOutOfSteps ==
    /\ node \in ReactNodes
    /\ ~MayStep
    /\ node' = GraphRecursionError
    /\ UNCHANGED <<state, step, config, calls, idle>>

ReactNext == CallModelStep \/ ReactToolsStep \/ ReactOutOfSteps

ReactSpec == ReactInit /\ [][ReactNext]_vars

\* C7: no run of the ReAct graph has a node scheduled for a step beyond the
\* recursion limit.
C7_NeverOutOfSteps ==
    ~(node \in ReactNodes /\ step >= config.recursion_limit)

----------------------------------------------------------------------------
(* Loading the configuration *)

IntKeys == {"max_search_results", "max_info_tool_calls", "max_loops"}
\* "thread_id" is a key of configurable that is a field of neither agent
StrKeys == (_fields \ IntKeys) \cup ReactKeys \cup {"thread_id"}

Dicts(K, V) == UNION {[D -> V] : D \in SUBSET K}

Merge(f, g) ==
    [k \in DOMAIN f \cup DOMAIN g |-> IF k \in DOMAIN f THEN f[k] ELSE g[k]]

LoadConfigs ==
    {[recursion_limit |-> MaxRecursionLimit, kind |-> "dict",
      configurable |-> Merge(i, t)] :
        i \in Dicts(IntKeys, 0..MaxConfigValue), t \in Dicts(StrKeys, {"x"})}
    \cup
    {[recursion_limit |-> MaxRecursionLimit, kind |-> k,
      configurable |-> EmptyItems] : k \in {"missing", "none"}}

ConfigInit ==
    /\ config \in LoadConfigs
    /\ configuration = NotLoaded
    /\ pair = NoPair
    /\ routed = NotRouted
    /\ response = <<>>
    /\ state = [messages |-> <<>>]
    /\ node = END
    /\ step = 0
    /\ calls = NoCalls

\* Configuration.from_runnable_config(config)
LoadEnrichment ==
    /\ configuration = NotLoaded
    /\ configuration' =
          [by |-> "from_runnable_config"] @@ from_runnable_config(config)
    /\ UNCHANGED <<state, node, step, config, calls, pair, routed, response>>

\* ensure_configurable(config)
LoadReact ==
    /\ configuration = NotLoaded
    /\ configuration' =
          [by |-> "ensure_configurable"] @@ ensure_configurable(config)
    /\ UNCHANGED <<state, node, step, config, calls, pair, routed, response>>

ConfigNext == LoadEnrichment \/ LoadReact

ConfigSpec == ConfigInit /\ [][ConfigNext]_vars

\* key k is present in config["configurable"]
Supplied(k) == config.kind = "dict" /\ k \in DOMAIN config.configurable

\* C9: loading returns, for every known key, the supplied value when the key
\* is present and the declared default when it is absent (max_loops 6,
\* max_info_tool_calls 3, max_search_results 10); from_runnable_config does not
\* fail on keys that are no fields; a missing or empty configurable yields the
\* defaults.
C9_DefaultsPopulated ==
    /\ configuration.by = "from_runnable_config" =>
          /\ configuration.ok
          /\ DOMAIN configuration.value = _fields
          /\ \A k \in _fields :
                configuration.value[k] =
                    IF Supplied(k) THEN config.configurable[k] ELSE FieldDefault(k)
          /\ ~Supplied("max_loops") => configuration.value["max_loops"] = 6
          /\ ~Supplied("max_info_tool_calls") =>
                configuration.value["max_info_tool_calls"] = 3
          /\ ~Supplied("max_search_results") =>
                configuration.value["max_search_results"] = 10
    /\ configuration.by = "ensure_configurable" =>
          /\ DOMAIN configuration.value = ReactKeys
          /\ \A k \in ReactKeys :
                configuration.value[k] =
                    IF Supplied(k) THEN config.configurable[k] ELSE ReactDefault(k)

C9_Witness ==
    /\ configuration.by = "from_runnable_config"
    /\ Supplied("thread_id")
    /\ Supplied("max_loops")
    /\ config.configurable["max_loops"] = 0
    /\ ~Supplied("max_info_tool_calls")
    /\ configuration.value["max_info_tool_calls"] = 3

----------------------------------------------------------------------------
(* The routing functions on pairs of states *)

\* model responses of at most one tool call
RouteResponses == SeqsUpTo(ToolCalls, 1)
ReactRouteResponses == SeqsUpTo([name : TOOLS, args : {"q"}], 1)

\* the <<state, node>> a run of the enrichment graph under cfg is in one
\* superstep after p
Successors(cfg, p) ==
    CASE p[2] = "call_agent_model" ->
            {LET s2 == after_call_agent_model(p[1], r)
             IN  <<s2, route_after_agent(s2)>> : r \in RouteResponses}
      [] p[2] = "tools" ->
            {<<after_tools(p[1], st), "call_agent_model">> :
                st \in {"success", "error"}}
      [] p[2] = "reflect" ->
            {LET s2 == after_reflect(p[1], v)
             IN  <<s2, route_after_checker(s2, cfg)>> : v \in BOOLEAN}
      [] OTHER -> {}

RECURSIVE Reached(_, _)
\* the <<state, node>> of the first n supersteps of the runs under cfg
Reached(cfg, n) ==
    IF n = 0 THEN {<<s, "call_agent_model">> : s \in InputStates}
    ELSE LET prev == Reached(cfg, n - 1)
         IN  prev \cup UNION {Successors(cfg, p) : p \in prev}

\* the states route_after_agent is called with
AgentStates(cfg) ==
    {after_call_agent_model(p[1], r) :
        p \in {q \in Reached(cfg, MaxRouteSteps) : q[2] = "call_agent_model"},
        r \in RouteResponses}

\* the states route_after_checker is called with
CheckerStates(cfg) ==
    {after_reflect(p[1], v) :
        p \in {q \in Reached(cfg, MaxRouteSteps) : q[2] = "reflect"},
        v \in BOOLEAN}

\* the <<state, node, step>> a run of the ReAct graph under cfg is in one
\* superstep after p
ReactSuccessors(cfg, p) ==
    IF p[3] >= cfg.recursion_limit THEN {}
    ELSE CASE p[2] = "call_model" ->
                 {LET s2 == after_call_model(p[1], IsLastStep(p[3], cfg), r)
                  IN  <<s2, route_model_output(s2), p[3] + 1>> :
                     r \in ReactRouteResponses}
           [] p[2] = "tools" ->
                 {<<after_react_tools(p[1], st), "call_model", p[3] + 1>> :
                     st \in {"success", "error"}}
           [] OTHER -> {}

RECURSIVE ReactReached(_, _)
ReactReached(cfg, n) ==
    IF n = 0 THEN {<<[messages |-> <<HumanMessage>>], "call_model", 0>>}
    ELSE LET prev == ReactReached(cfg, n - 1)
         IN  prev \cup UNION {ReactSuccessors(cfg, p) : p \in prev}

\* the states route_model_output is called with
ModelOutputStates ==
    UNION {{after_call_model(p[1], IsLastStep(p[3], cfg), r) :
               p \in {q \in ReactReached(cfg, MaxRouteSteps) :
                          q[2] = "call_model" /\ q[3] < cfg.recursion_limit},
               r \in ReactRouteResponses} : cfg \in ReactConfigs}

RouteConfigs ==
    {c \in EnrichmentConfigs :
        /\ c.recursion_limit = MaxRecursionLimit
        /\ "max_info_tool_calls" \notin DOMAIN c.configurable}

Pairs(router, S) == {[router |-> router, s1 |-> a, s2 |-> b] : a \in S, b \in S}

RouteInit ==
    /\ config \in RouteConfigs
    /\ pair \in Pairs("route_after_agent", AgentStates(config))
                \cup Pairs("route_after_checker", CheckerStates(config))
                \cup Pairs("route_model_output", ModelOutputStates)
    /\ routed = NotRouted
    /\ response = <<>>
    /\ configuration = NotLoaded
    /\ state = [messages |-> <<>>]
    /\ node = END
    /\ step = 0
    /\ calls = NoCalls

Routing(router, r1, r2) ==
    /\ pair.router = router
    /\ routed = NotRouted
    /\ routed' = <<r1, r2>>
    /\ UNCHANGED <<state, node, step, config, calls, configuration, pair, response>>

RouteAfterAgent ==
    Routing("route_after_agent",
            route_after_agent(pair.s1), route_after_agent(pair.s2))

RouteAfterChecker ==
    Routing("route_after_checker",
            route_after_checker(pair.s1, config),
            route_after_checker(pair.s2, config))

RouteModelOutput ==
    Routing("route_model_output",
            route_model_output(pair.s1), route_model_output(pair.s2))

RouteNext == RouteAfterAgent \/ RouteAfterChecker \/ RouteModelOutput

RouteSpec == RouteInit /\ [][RouteNext]_vars

\* the two states of the pair have the same last message
SameLastMessage == Last(pair.s1.messages) = Last(pair.s2.messages)

\* C8 as stated: each of the three routing functions returns the same next
\* node for two states with the same last message.
C8_LastMessageDecides ==
    (routed # NotRouted /\ SameLastMessage) => routed[1] = routed[2]

\* C8 amended: route_model_output and route_after_agent return the same next
\* node for two states with the same last message; route_after_checker does
\* so when, in addition, loop_step and the emptiness of info agree.
C8_LastMessageDecidesAgentRoutes ==
    (routed # NotRouted /\ SameLastMessage) =>
        \/ routed[1] = routed[2]
        \/ /\ pair.router = "route_after_checker"
           /\ \/ pair.s1.loop_step # pair.s2.loop_step
              \/ Truthy(pair.s1.info) # Truthy(pair.s2.info)

C8_Witness ==
    /\ routed # NotRouted
    /\ SameLastMessage
    /\ pair.router = "route_after_agent"
    /\ pair.s1.loop_step # pair.s2.loop_step
    /\ pair.s1.messages[1] # pair.s2.messages[1]
    /\ routed[1] = "reflect"

====
